---- MODULE Spec2Model ----
(***************************************************************************)
(* CurrencyExchangeBot (main.py): the rate cache in front of the rate      *)
(* provider, the two SQLite tables it keeps, and the four message          *)
(* handlers.  A step of the model is one whole handler invocation; the     *)
(* bot is single threaded (bot.polling delivers one message at a time).    *)
(*                                                                         *)
(* Texts are sequences of symbols: one symbol per character, except that   *)
(* a word no handler looks into ("/list", "to", "for", "days" ...) is      *)
(* written as one symbol.  Rates are counted in hundredths, so that        *)
(* round(usd_amount * rate, 2) is exact.  Dates of the history request are *)
(* day ordinals.                                                           *)
(***************************************************************************)
EXTENDS Integers, Sequences, FiniteSets, TLC

VARIABLES
    LastSynced,     \* table LastSynced (lines 219-230): the sequence of its
                    \* rows, each a timestamp
    ExchangeRates,  \* table ExchangeRates (lines 210-216): currency -> rate
    handler,        \* the handler that ran last
    message,        \* the message it handled: its text, and its date for the
                    \* commands that serve current rates (/list, /exchange)
    old,            \* the two tables as they were before it ran
    response,       \* what the provider answered, if it was asked
    calls,          \* number of requests.get calls the handler made
    returned,       \* what get_exchange_rates returned (line 58)
    sent,           \* the messages the handler sent to the chat
    escaped,        \* the exception that left the handler, or "none"
    request         \* the history request the handler issued (lines 138-146)

vars == <<LastSynced, ExchangeRates, handler, message, old, response, calls,
          returned, sent, escaped, request>>

----------------------------------------------------------------------------
(* Bounds of the model *)

MaxTick == 3
MaxDay == 1

----------------------------------------------------------------------------
(* Program constants and the inputs *)

SyncPeriod == 60 * 10

\* message.date values: 0, every multiple of the sync period and the second
\* after it
Times == {0} \cup {k * SyncPeriod + d : k \in 1..MaxTick, d \in {0, 1}}

EUR == <<"E", "U", "R">>
GBP == <<"G", "B", "P">>
Currencies == {EUR, GBP}

EmptyRates == [c \in {} |-> 0]

\* the 'rates' objects the provider answers with, rates in hundredths
Snapshots == {EmptyRates, EUR :> 90, GBP :> 80, EUR :> 95 @@ GBP :> 80}

----------------------------------------------------------------------------
(* The database: sqlite3 statements and the connection's transaction *)

\* a database is both tables
Database(ls, er) == [LastSynced |-> ls, ExchangeRates |-> er]

\* cursor.fetchone()[0] of "SELECT timestamp FROM LastSynced": the first
\* row's timestamp; fetchone() is None on an empty table and None[0] raises
FetchTimestamp(table) ==
    IF table = <<>> THEN [exc |-> "TypeError", value |-> 0]
    ELSE [exc |-> "none", value |-> Head(table)]

DeleteLastSyncedKeepRows(table) == table

\* "DELETE FROM LastSynced;"
DeleteLastSynced(table) == <<>>

\* "INSERT INTO LastSynced(timestamp) VALUES (?);"
InsertLastSynced(table, timestamp) == Append(table, timestamp)

\* "DELETE FROM ExchangeRates;"
DeleteExchangeRates(table) == EmptyRates

\* the loop of "INSERT INTO ExchangeRates(currency, rate) VALUES (?, ?);"
\* over exchange_rates.items(), run on a table that holds none of the keys
InsertExchangeRates(table, exchange_rates) ==
    [c \in DOMAIN table \cup DOMAIN exchange_rates |->
        IF c \in DOMAIN exchange_rates THEN exchange_rates[c] ELSE table[c]]

ReplaceRatesNoTruncate(table, exchange_rates) ==
    InsertExchangeRates(table, exchange_rates)

\* lines 41-45: truncate the table, then insert the new values
ReplaceRates(table, exchange_rates) ==
    InsertExchangeRates(DeleteExchangeRates(table), exchange_rates)

\* "SELECT currency, rate FROM ExchangeRates;" placed into a dictionary
SelectRates(table) == [c \in DOMAIN table |-> table[c]]

\* "with sqlite3.connect(DB_NAME) as connection": the block's statements
\* run in one transaction, committed when the block is left normally ...
Commit(committed, working) == working

RollbackKeepsWrites(committed, working) == working

\* ... and rolled back when an exception leaves the block
Rollback(committed, working) == committed

----------------------------------------------------------------------------
(* The rate provider *)

NoResponse == [kind |-> "none", status_code |-> 0, rates |-> EmptyRates]

\* requests.get(HOST + 'latest'): HTTP 200 with a 'rates' object, another
\* status, or no answer at all (requests raises ConnectionError)
LatestResponses ==
    {[kind |-> "response", status_code |-> 200, rates |-> r] : r \in Snapshots}
    \cup {[kind |-> "response", status_code |-> 500, rates |-> EmptyRates],
          [kind |-> "ConnectionError", status_code |-> 0, rates |-> EmptyRates]}

\* requests.get(HOST + 'history'): the same, and an exception of requests
\* that is no ConnectionError (a read timeout)
HistoryResponses ==
    {[kind |-> "response", status_code |-> 200, rates |-> EmptyRates],
     [kind |-> "response", status_code |-> 400, rates |-> EmptyRates],
     [kind |-> "ConnectionError", status_code |-> 0, rates |-> EmptyRates],
     [kind |-> "ReadTimeout", status_code |-> 0, rates |-> EmptyRates]}

----------------------------------------------------------------------------
(* get_exchange_rates *)

IsStaleEitherSide(message_date, last_saved_timestamp) ==
    \/ (message_date - last_saved_timestamp) > SyncPeriod
    \/ (last_saved_timestamp - message_date) > SyncPeriod

IsStaleOnceSynced(message_date, last_saved_timestamp) ==
    /\ last_saved_timestamp # 0
    /\ (message_date - last_saved_timestamp) > SyncPeriod

IsStaleFromPeriod(message_date, last_saved_timestamp) ==
    (message_date - last_saved_timestamp) >= SyncPeriod

\* line 30: last save was more than 10 minutes ago
IsStale(message_date, last_saved_timestamp) ==
    (message_date - last_saved_timestamp) > SyncPeriod

\* The outcome of a call: the database it leaves, whether exchange_rates
\* was bound at "return exchange_rates" and to what, the exception leaving
\* the function, and the number of provider calls.
Outcome(db, bound, rates, exc, n) ==
    [db |-> db, bound |-> bound, rates |-> rates, exc |-> exc, calls |-> n]

\* Every exception of the try block is printed and swallowed (lines 55-56);
\* exchange_rates is then unbound, "return exchange_rates" raises
\* UnboundLocalError inside the with block, and the connection rolls back.
Unbound(db, working, n) ==
    Outcome(Rollback(db, working), FALSE, EmptyRates, "UnboundLocalError", n)

get_exchange_rates(db, message_date, resp) ==
    LET fetched == FetchTimestamp(db.LastSynced)
        last_saved_timestamp == fetched.value
        \* lines 32-33: update last synced timestamp
        stamped == [db EXCEPT !.LastSynced =
                       InsertLastSynced(DeleteLastSynced(@), message_date)]
        \* lines 40-45
        stored == [stamped EXCEPT !.ExchangeRates = ReplaceRates(@, resp.rates)]
    IN  IF fetched.exc # "none" THEN Unbound(db, db, 0)
        ELSE IF IsStale(message_date, last_saved_timestamp)
        THEN IF resp.kind = "response" /\ resp.status_code = 200
             THEN Outcome(Commit(db, stored), TRUE, resp.rates, "none", 1)
             ELSE Unbound(db, stamped, 1)
        ELSE Outcome(Commit(db, db), TRUE, SelectRates(db.ExchangeRates),
                     "none", 0)

----------------------------------------------------------------------------
(* Texts *)

Space == " "

RECURSIVE JoinWith(_, _)
JoinWith(words, gap) ==
    IF words = <<>> THEN <<>>
    ELSE IF Len(words) = 1 THEN words[1]
    ELSE words[1] \o gap \o JoinWith(Tail(words), gap)

Texts(command, args) == {JoinWith(<<<<command>>>> \o a, <<Space>>) : a \in args}

AmountWords == {<<"$", "5">>, <<"1", "0">>, <<"5", "$">>, <<"x">>}

CurrencyWords == {EUR, <<"g", "b", "p">>, <<"x", "y", "z">>}

ExchangeArgs ==
    {<<>>, <<<<"5">>>>}
    \cup {<<a, <<"to">>, c>> : a \in AmountWords, c \in CurrencyWords}

\* the texts of /exchange, and one typed with wider gaps
ExchangeTexts ==
    Texts("/exchange", ExchangeArgs)
    \cup {JoinWith(<<<<"/exchange">>, <<"5">>, <<"to">>, <<"e", "u", "r">>>>,
                   <<Space, Space>>) \o <<Space>>}

PairWords == {<<"U", "S", "D", "/", "E", "U", "R">>,
              <<"U", "S", "D", "E", "U", "R">>}

PeriodWords == {<<"2">>, <<"0">>, <<"-", "2">>, <<"x">>}

HistoryArgs ==
    {<<>>, <<<<"U", "S", "D", "/">>>>}
    \cup {<<p, <<"for">>, n, <<"days">>>> : p \in PairWords, n \in PeriodWords}

HistoryTexts == Texts("/history", HistoryArgs)

\* datetime.today(), as a day ordinal
Today == 1..MaxDay

----------------------------------------------------------------------------
(* str.split, str.upper, float and int *)

RECURSIVE SplitFrom(_, _, _, _)
SplitFrom(text, i, word, words) ==
    IF i > Len(text)
    THEN IF word = <<>> THEN words ELSE Append(words, word)
    ELSE IF text[i] = Space
         THEN SplitFrom(text, i + 1, <<>>,
                        IF word = <<>> THEN words ELSE Append(words, word))
         ELSE SplitFrom(text, i + 1, Append(word, text[i]), words)

\* str.split(): the words between runs of whitespace
SplitWords(text) == SplitFrom(text, 1, <<>>, <<>>)

\* message.text.split(), tabulated over the texts of the model
Split == [text \in ExchangeTexts \cup HistoryTexts |-> SplitWords(text)]

RECURSIVE SplitOnFrom(_, _, _, _, _)
SplitOnFrom(word, sep, i, part, parts) ==
    IF i > Len(word) THEN Append(parts, part)
    ELSE IF word[i] = sep
         THEN SplitOnFrom(word, sep, i + 1, <<>>, Append(parts, part))
         ELSE SplitOnFrom(word, sep, i + 1, Append(part, word[i]), parts)

\* split_msg[1].split('/'): the parts between separators, empty ones kept
SplitOn(word, sep) == SplitOnFrom(word, sep, 1, <<>>, <<>>)

LowerLetters == <<"a", "b", "c", "d", "e", "f", "g", "h", "i", "j", "k", "l",
                  "m", "n", "o", "p", "q", "r", "s", "t", "u", "v", "w", "x",
                  "y", "z">>
UpperLetters == <<"A", "B", "C", "D", "E", "F", "G", "H", "I", "J", "K", "L",
                  "M", "N", "O", "P", "Q", "R", "S", "T", "U", "V", "W", "X",
                  "Y", "Z">>

UpperOf == [c \in {LowerLetters[i] : i \in 1..Len(LowerLetters)} |->
               UpperLetters[CHOOSE i \in 1..Len(LowerLetters) : LowerLetters[i] = c]]

UpperChar(c) == IF c \in DOMAIN UpperOf THEN UpperOf[c] ELSE c

\* split_msg[-1].upper()
Upper(word) == [i \in 1..Len(word) |-> UpperChar(word[i])]

Digits == <<"0", "1", "2", "3", "4", "5", "6", "7", "8", "9">>

DigitOf == [c \in {Digits[i] : i \in 1..Len(Digits)} |->
               (CHOOSE i \in 1..Len(Digits) : Digits[i] = c) - 1]

IsDigit(c) == c \in DOMAIN DigitOf

DigitValue(c) == DigitOf[c]

RECURSIVE Decimal(_)
Decimal(digits) ==
    IF digits = <<>> THEN 0
    ELSE Decimal(SubSeq(digits, 1, Len(digits) - 1)) * 10
         + DigitValue(digits[Len(digits)])

\* A literal of an optional sign and decimal digits.  Of the words made of
\* digits, signs, "$", "/" and the letter x, these are the ones float() and
\* int() accept; every other one raises ValueError.
SignedDecimal(word) ==
    LET signed == word # <<>> /\ word[1] \in {"-", "+"}
        digits == IF signed THEN Tail(word) ELSE word
    IN  IF digits # <<>> /\ \A i \in 1..Len(digits) : IsDigit(digits[i])
        THEN [exc |-> "none",
              value |-> IF signed /\ word[1] = "-" THEN 0 - Decimal(digits)
                        ELSE Decimal(digits)]
        ELSE [exc |-> "ValueError", value |-> 0]

\* line 96: float(usd_amount[1:]) if '$' in usd_amount else float(usd_amount)
ParseAmount(usd_amount) ==
    IF \E i \in 1..Len(usd_amount) : usd_amount[i] = "$"
    THEN SignedDecimal(Tail(usd_amount))
    ELSE SignedDecimal(usd_amount)

\* line 131: int(split_msg[-2])
ParsePeriod(word) == SignedDecimal(word)

----------------------------------------------------------------------------
(* Messages to the chat *)

Msg(kind, rates, usd_amount, value, currency) ==
    [kind |-> kind, rates |-> rates, usd_amount |-> usd_amount,
     value |-> value, currency |-> currency]

Plain(kind) == Msg(kind, EmptyRates, 0, 0, <<>>)

\* the outcome of a handler: what it sent, the exception that left it, the
\* history request it issued and the number of provider calls
NoRequest == [issued |-> FALSE, start_at |-> 0, end_at |-> 0,
              base |-> <<>>, symbols |-> <<>>]

Handled(msgs, exc, req, n) ==
    [sent |-> msgs, escaped |-> exc, request |-> req, calls |-> n]

----------------------------------------------------------------------------
(* show_rate_list *)

\* lines 69-76: no try block, so what get_exchange_rates raises leaves the
\* handler before bot.send_message is reached
show_rate_list(out) ==
    IF out.exc # "none" THEN Handled(<<>>, out.exc, NoRequest, out.calls)
    ELSE Handled(<<Msg("rate_list", out.rates, 0, 0, <<>>)>>, "none",
                 NoRequest, out.calls)

----------------------------------------------------------------------------
(* exchange_currencies *)

ExchangeExceptNoTypeError(exc) ==
    CASE exc = "IndexError" ->
            Handled(<<Plain("incorrect_input")>>, "none", NoRequest, 0)
      [] exc = "ValueError" ->
            Handled(<<Plain("incorrect_usd_amount")>>, "none", NoRequest, 0)
      [] exc = "OperationalError" -> Handled(<<>>, "none", NoRequest, 0)
      [] OTHER -> Handled(<<>>, exc, NoRequest, 0)

\* the except clauses, lines 104-111
ExchangeExcept(exc) ==
    CASE exc = "IndexError" ->
            Handled(<<Plain("incorrect_input")>>, "none", NoRequest, 0)
      [] exc = "ValueError" ->
            Handled(<<Plain("incorrect_usd_amount")>>, "none", NoRequest, 0)
      [] exc = "TypeError" ->
            Handled(<<Plain("currency_not_existing")>>, "none", NoRequest, 0)
      [] exc = "OperationalError" -> Handled(<<>>, "none", NoRequest, 0)
      [] OTHER -> Handled(<<>>, exc, NoRequest, 0)

\* lines 92-103; the rate is read from the table as it is, message.date is
\* not looked at and get_exchange_rates is not called
exchange_currencies(db, text) ==
    LET split_msg == Split[text]
        new_currency == Upper(split_msg[Len(split_msg)])
        usd_amount == ParseAmount(split_msg[2])
        rate == db.ExchangeRates[new_currency]
    IN  IF Len(split_msg) < 2 THEN ExchangeExcept("IndexError")
        ELSE IF usd_amount.exc # "none" THEN ExchangeExcept(usd_amount.exc)
        ELSE IF new_currency \notin DOMAIN db.ExchangeRates
        THEN ExchangeExcept("TypeError")
        ELSE Handled(<<Msg("exchanged", EmptyRates, usd_amount.value,
                           usd_amount.value * rate, new_currency)>>,
                     "none", NoRequest, 0)

----------------------------------------------------------------------------
(* show_history_graph *)

\* the except clauses, lines 173-180: any other exception is printed
HistoryExcept(exc, req, n) ==
    CASE exc = "IndexError" ->
            Handled(<<Plain("incorrect_currencies")>>, "none", req, n)
      [] exc = "ConnectionError" ->
            Handled(<<Plain("no_rate_available")>>, "none", req, n)
      [] exc = "ValueError" ->
            Handled(<<Plain("incorrect_history_period")>>, "none", req, n)
      [] OTHER -> Handled(<<>>, "none", req, n)

\* lines 123-172; today is datetime.today() as a day ordinal
show_history_graph(text, today, resp) ==
    LET split_msg == Split[text]
        currencies == SplitOn(split_msg[2], "/")
        period == ParsePeriod(split_msg[Len(split_msg) - 1])
        previous_date == today - period.value
        period_params == [issued |-> TRUE, start_at |-> previous_date,
                          end_at |-> today, base |-> currencies[1],
                          symbols |-> currencies[2]]
    IN  IF Len(split_msg) < 2 THEN HistoryExcept("IndexError", NoRequest, 0)
        ELSE IF Len(currencies) < 2
        THEN HistoryExcept("IndexError", NoRequest, 0)
        ELSE IF period.exc # "none"
        THEN HistoryExcept(period.exc, NoRequest, 0)
        ELSE IF resp.kind # "response"
        THEN HistoryExcept(resp.kind, period_params, 1)
        ELSE IF resp.status_code = 200
        THEN Handled(<<Plain("photo")>>, "none", period_params, 1)
        ELSE HistoryExcept("ConnectionError", period_params, 1)

----------------------------------------------------------------------------
(* init_db *)

\* lines 226-230: seed LastSynced when it has no row
init_db(db) ==
    IF db.LastSynced = <<>>
    THEN [db EXCEPT !.LastSynced = InsertLastSynced(@, 0)]
    ELSE db

----------------------------------------------------------------------------
(* The state machine *)

Returned(bound, rates) == [bound |-> bound, rates |-> rates]

NotCalled == Returned(FALSE, EmptyRates)

Init ==
    LET db == init_db(Database(<<>>, EmptyRates))
    IN  /\ LastSynced = db.LastSynced
        /\ ExchangeRates = db.ExchangeRates
        /\ handler = "init_db"
        /\ message = [date |-> 0, text |-> <<>>]
        /\ old = Database(<<>>, EmptyRates)
        /\ response = NoResponse
        /\ calls = 0
        /\ returned = NotCalled
        /\ sent = <<>>
        /\ escaped = "none"
        /\ request = NoRequest

\* the bot is started again on the database file it left (line 236)
InitDb ==
    LET db == Database(LastSynced, ExchangeRates)
        seeded == init_db(db)
    IN  /\ handler # "init_db"
        /\ LastSynced' = seeded.LastSynced
        /\ ExchangeRates' = seeded.ExchangeRates
        /\ handler' = "init_db"
        /\ message' = [date |-> 0, text |-> <<>>]
        /\ old' = db
        /\ response' = NoResponse
        /\ calls' = 0
        /\ returned' = NotCalled
        /\ sent' = <<>>
        /\ escaped' = "none"
        /\ request' = NoRequest

\* /list or /lst
ShowRateList ==
    \E date \in Times, resp \in LatestResponses :
        LET db == Database(LastSynced, ExchangeRates)
            out == get_exchange_rates(db, date, resp)
            done == show_rate_list(out)
        IN  /\ LastSynced' = out.db.LastSynced
            /\ ExchangeRates' = out.db.ExchangeRates
            /\ handler' = "show_rate_list"
            /\ message' = [date |-> date, text |-> <<"/list">>]
            /\ old' = db
            /\ response' = IF out.calls > 0 THEN resp ELSE NoResponse
            /\ calls' = done.calls
            /\ returned' = Returned(out.bound, out.rates)
            /\ sent' = done.sent
            /\ escaped' = done.escaped
            /\ request' = done.request

\* /exchange
ExchangeCurrencies ==
    \E date \in Times, text \in ExchangeTexts :
        LET db == Database(LastSynced, ExchangeRates)
            done == exchange_currencies(db, text)
        IN  /\ UNCHANGED <<LastSynced, ExchangeRates>>
            /\ handler' = "exchange_currencies"
            /\ message' = [date |-> date, text |-> text]
            /\ old' = db
            /\ response' = NoResponse
            /\ calls' = done.calls
            /\ returned' = NotCalled
            /\ sent' = done.sent
            /\ escaped' = done.escaped
            /\ request' = done.request

\* /history
ShowHistoryGraph ==
    \E text \in HistoryTexts, today \in Today, resp \in HistoryResponses :
        LET db == Database(LastSynced, ExchangeRates)
            done == show_history_graph(text, today, resp)
        IN  /\ UNCHANGED <<LastSynced, ExchangeRates>>
            /\ handler' = "show_history_graph"
            /\ message' = [date |-> 0, text |-> text]
            /\ old' = db
            /\ response' = IF done.calls > 0 THEN resp ELSE NoResponse
            /\ calls' = done.calls
            /\ returned' = NotCalled
            /\ sent' = done.sent
            /\ escaped' = done.escaped
            /\ request' = done.request

\* /help, lines 190-198
BotHelp ==
        /\ UNCHANGED <<LastSynced, ExchangeRates>>
        /\ handler' = "bot_help"
        /\ message' = [date |-> 0, text |-> <<"/help">>]
        /\ old' = Database(LastSynced, ExchangeRates)
        /\ response' = NoResponse
        /\ calls' = 0
        /\ returned' = NotCalled
        /\ sent' = <<Plain("help")>>
        /\ escaped' = "none"
        /\ request' = NoRequest

Next ==
    \/ InitDb
    \/ ShowRateList
    \/ ExchangeCurrencies
    \/ ShowHistoryGraph
    \/ BotHelp

Spec == Init /\ [][Next]_vars

----------------------------------------------------------------------------
(* Properties *)

Listed == handler = "show_rate_list"

Exchanged == handler = "exchange_currencies"

Charted == handler = "show_history_graph"

\* the timestamp get_exchange_rates read before it ran
OldSync == Head(old.LastSynced)

\* the provider answered HTTP 200
Answered == response.kind = "response" /\ response.status_code = 200

\* C1: a request no more than 600 seconds after the last sync (or before
\* it) is answered with exactly the stored rates, without a provider call.
C1_FreshServedFromStore ==
    (Listed /\ message.date - OldSync <= SyncPeriod)
        => /\ calls = 0
           /\ returned.bound
           /\ returned.rates = old.ExchangeRates

\* C1 witness: a request dated before the last sync, served from a store
\* that holds rates.
C1_Witness ==
    /\ Listed
    /\ message.date < OldSync
    /\ old.ExchangeRates # EmptyRates
    /\ returned.rates = old.ExchangeRates
    /\ calls = 0

\* C2 as claimed: with the seeded timestamp 0 the provider is called
\* whatever the request time is.
C2_NeverSyncedAlwaysFetches ==
    (Listed /\ OldSync = 0) => calls > 0

\* C2 as amended: with the seeded timestamp 0 the provider is called exactly
\* when the request time is more than 600; up to 600 the stored rates are
\* returned without a call.
C2_NeverSyncedFetchesAfterPeriod ==
    (Listed /\ OldSync = 0)
        => /\ (calls > 0) <=> (message.date > SyncPeriod)
           /\ (message.date <= SyncPeriod)
                 => (returned.bound /\ returned.rates = old.ExchangeRates)

\* C2 witness: the first request after the seeding, dated later than 600.
C2_Witness ==
    /\ Listed
    /\ OldSync = 0
    /\ message.date > SyncPeriod
    /\ calls = 1

\* C3: after a refresh the provider answered, the timestamp is the request
\* time, the stored rates are the answer's rates and nothing else, and the
\* caller got the same rates.
C3_RefreshReplacesStore ==
    (Listed /\ calls > 0 /\ Answered)
        => /\ LastSynced = <<message.date>>
           /\ ExchangeRates = response.rates
           /\ returned.bound
           /\ returned.rates = response.rates

\* C3 witness: a refresh whose answer lacks a currency that was stored.
C3_Witness ==
    /\ Listed
    /\ calls > 0
    /\ Answered
    /\ \E c \in DOMAIN old.ExchangeRates : c \notin DOMAIN response.rates
    /\ response.rates # EmptyRates
    /\ ExchangeRates = response.rates

\* C4: a stale request whose provider call fails ends in an error, returns
\* nothing, and leaves timestamp and rates as they were, so that the same
\* request is stale again.
C4_FailedRefreshLeavesStore ==
    (Listed /\ message.date - OldSync > SyncPeriod /\ ~Answered)
        => /\ calls = 1
           /\ escaped # "none"
           /\ ~returned.bound
           /\ LastSynced = old.LastSynced
           /\ ExchangeRates = old.ExchangeRates
           /\ message.date - Head(LastSynced) > SyncPeriod

\* C4 witness: a failed refresh of a store that was synced before.
C4_Witness ==
    /\ Listed
    /\ calls = 1
    /\ ~Answered
    /\ OldSync > 0
    /\ old.ExchangeRates # EmptyRates
    /\ escaped = "UnboundLocalError"

\* C5: every invocation of list, exchange and history sends exactly one
\* message to the chat.
C5_OneMessagePerCommand ==
    (Listed \/ Exchanged \/ Charted) => Len(sent) = 1

\* the words of the handled text
Words == Split[message.text]

\* C6: an exchange command with a numeric amount and a currency that is no
\* key of the stored rates sends the currency-not-found message, and no
\* exception leaves the handler.
C6_UnknownCurrencyReported ==
    (/\ Exchanged
     /\ Len(Words) >= 2
     /\ ParseAmount(Words[2]).exc = "none"
     /\ Upper(Words[Len(Words)]) \notin DOMAIN old.ExchangeRates)
        => /\ Len(sent) = 1
           /\ sent[1].kind = "currency_not_existing"
           /\ escaped = "none"

\* C6 witness: a well-formed exchange command on the empty store.
C6_Witness ==
    /\ Exchanged
    /\ Len(Words) = 4
    /\ ParseAmount(Words[2]).exc = "none"
    /\ old.ExchangeRates = EmptyRates
    /\ Len(sent) = 1
    /\ sent[1].kind = "currency_not_existing"

\* C7: a history command with a negative period is answered with the
\* incorrect-period or the incorrect-input message, and no request with a
\* start date after its end date is issued.
C7_NegativePeriodRejected ==
    (/\ Charted
     /\ Len(Words) >= 2
     /\ Len(SplitOn(Words[2], "/")) >= 2
     /\ ParsePeriod(Words[Len(Words) - 1]).exc = "none"
     /\ ParsePeriod(Words[Len(Words) - 1]).value < 0)
        => /\ Len(sent) = 1
           /\ sent[1].kind \in {"incorrect_history_period",
                                "incorrect_currencies"}
           /\ ~(request.issued /\ request.start_at > request.end_at)

\* C8: an exchange command dated more than 600 seconds after the last sync
\* calls the provider.
C8_ExchangeRefreshesStaleRates ==
    (Exchanged /\ message.date - OldSync > SyncPeriod) => calls > 0

\* C9: the LastSynced table holds exactly one row.
C9_OneTimestampRow == Len(LastSynced) = 1

\* C9 witness: the timestamp has been replaced a second time.
C9_Witness ==
    /\ Listed
    /\ OldSync > 0
    /\ Head(LastSynced) > OldSync
    /\ Len(LastSynced) = 1

\* C10: a step leaves the stored timestamp as it is or raises it by more
\* than 600.
C10_TimestampNeverDecreases ==
    [][\/ Head(LastSynced') = Head(LastSynced)
       \/ Head(LastSynced') > Head(LastSynced) + SyncPeriod]_vars

\* C10 witness: a request dated more than 600 seconds before the last sync
\* has been handled and the timestamp stayed.
C10_Witness ==
    /\ Listed
    /\ message.date + SyncPeriod < OldSync
    /\ LastSynced = old.LastSynced

====
